---- MODULE Spec2Model ----
(***************************************************************************)
(* Model of cazira's README pipeline (src/src/main.py): main,              *)
(* configure_logger, process_repositories, get_repo_info, download_readme  *)
(* and save_readme.  Python strings whose characters matter (repository    *)
(* entries, license names, log levels, file names, README bodies) are      *)
(* sequences of one-character strings, so that strip, split, lower, upper  *)
(* and replace are computed the way the code computes them.                *)
(***************************************************************************)
EXTENDS Integers, Sequences, FiniteSets, TLC

(***************************************************************************)
(* Bounds and inputs                                                       *)
(***************************************************************************)
\* longest list handed to process_repositories
MaxRepos == 2

\* entries a caller can put in the list
E_empty   == << >>
E_blank   == <<" ">>
E_noslash == <<"a">>
E_twoslash == <<"a", "/", "b", "/", "r">>
E_a_r     == <<"a", "/", "r">>
E_b_r     == <<"b", "/", "r">>
E_pad_a_s == <<" ", "a", "/", "s", "\n">>
RepoInputs == {E_empty, E_blank, E_noslash, E_twoslash, E_a_r, E_b_r, E_pad_a_s}

\* README bodies the raw-content host can answer with
T_empty == << >>
T_x     == <<"#">>
T_xy    == <<"#", "\n">>
Texts == {T_empty, T_x, T_xy}

\* a file left in the output directory by an earlier run
T_old == <<"o">>

(***************************************************************************)
(* Python values                                                           *)
(***************************************************************************)
PyNone == [t |-> "None"]
PyStr(s) == [t |-> "str", s |-> s]
Missing == [t |-> "missing"]

\* a JSON object of the metadata document: the keys the code reads, and the
\* number of other keys
PyDict(license, default_branch, extra) ==
    [t |-> "dict", license |-> license, default_branch |-> default_branch, extra |-> extra]

\* the `license` object: its `name` and the number of other keys
PyLicense(name, extra) == [t |-> "dict", name |-> name, extra |-> extra]

DictLen(d) ==
    (IF "license" \in DOMAIN d /\ d.license.t # "missing" THEN 1 ELSE 0)
  + (IF "default_branch" \in DOMAIN d /\ d.default_branch.t # "missing" THEN 1 ELSE 0)
  + (IF "name" \in DOMAIN d /\ d.name.t # "missing" THEN 1 ELSE 0)
  + d.extra

\* Python truth value of None, a str or a dict
Truthy(v) ==
    CASE v.t = "None" -> FALSE
      [] v.t = "str"  -> Len(v.s) > 0
      [] v.t = "dict" -> DictLen(v) > 0
      [] OTHER        -> TRUE

\* dict.get(key, default)
DictGet(d, key, default) == IF d[key].t = "missing" THEN default ELSE d[key]

(***************************************************************************)
(* str methods                                                             *)
(***************************************************************************)
Whitespace == {" ", "\t", "\n", "\r"}

RECURSIVE LStrip(_)
LStrip(s) == IF s = << >> THEN s
             ELSE IF Head(s) \in Whitespace THEN LStrip(Tail(s)) ELSE s

RECURSIVE RStrip(_)
RStrip(s) == IF s = << >> THEN s
             ELSE IF s[Len(s)] \in Whitespace THEN RStrip(SubSeq(s, 1, Len(s) - 1)) ELSE s

\* str.strip()
Strip(s) == RStrip(LStrip(s))

\* str.split(sep, 1): at most one cut
SplitMaxOne(s, sep) ==
    IF \E p \in 1..Len(s) : s[p] = sep
    THEN LET p == CHOOSE q \in 1..Len(s) : s[q] = sep /\ \A r \in 1..(q - 1) : s[r] # sep
         IN  <<SubSeq(s, 1, p - 1), SubSeq(s, p + 1, Len(s))>>
    ELSE <<s>>

\* str.split(sep)
RECURSIVE Split(_, _)
Split(s, sep) ==
    IF \E p \in 1..Len(s) : s[p] = sep
    THEN LET p == CHOOSE q \in 1..Len(s) : s[q] = sep /\ \A r \in 1..(q - 1) : s[r] # sep
         IN  <<SubSeq(s, 1, p - 1)>> \o Split(SubSeq(s, p + 1, Len(s)), sep)
    ELSE <<s>>

UpperCase == <<"A","B","C","D","E","F","G","H","I","J","K","L","M",
               "N","O","P","Q","R","S","T","U","V","W","X","Y","Z">>
LowerCase == <<"a","b","c","d","e","f","g","h","i","j","k","l","m",
               "n","o","p","q","r","s","t","u","v","w","x","y","z">>

LowerChar(c) == IF \E k \in 1..26 : UpperCase[k] = c
                THEN LowerCase[CHOOSE k \in 1..26 : UpperCase[k] = c] ELSE c
UpperChar(c) == IF \E k \in 1..26 : LowerCase[k] = c
                THEN UpperCase[CHOOSE k \in 1..26 : LowerCase[k] = c] ELSE c

\* str.lower(), str.upper()
Lower(s) == [k \in 1..Len(s) |-> LowerChar(s[k])]
Upper(s) == [k \in 1..Len(s) |-> UpperChar(s[k])]

\* str.replace(old, new) for one-character old and new
Replace(s, old, new) == [k \in 1..Len(s) |-> IF s[k] = old THEN new ELSE s[k]]

(***************************************************************************)
(* Program constants                                                       *)
(***************************************************************************)
ALLOWED_LICENSES ==
    << <<"m","i","t"," ","l","i","c","e","n","s","e">>,
       <<"a","p","a","c","h","e"," ","l","i","c","e","n","s","e"," ","2",".","0">>,
       <<"b","s","d"," ","l","i","c","e","n","s","e">> >>

\* `x in list`
InList(x, list) == \E k \in 1..Len(list) : list[k] = x

\* main's hardcoded list
target_repositories ==
    << <<"i","k","a","t","y","a","n","g","/",
         "e","m","o","j","i","-","c","h","e","a","t","-","s","h","e","e","t">> >>

\* argparse: choices of --log-level
LogLevelChoices == { <<"I","N","F","O">>, <<"D","E","B","U","G">> }

\* the upper-case names of the logging module that are bound to an int
LoggingIntNames ==
    { <<"C","R","I","T","I","C","A","L">>, <<"F","A","T","A","L">>, <<"E","R","R","O","R">>,
      <<"W","A","R","N","I","N","G">>, <<"W","A","R","N">>, <<"I","N","F","O">>,
      <<"D","E","B","U","G">>, <<"N","O","T","S","E","T">> }

\* values of --log-level a user can type
LogLevelInputs ==
    { <<"I","N","F","O">>, <<"D","E","B","U","G">>, <<"d","e","b","u","g">>,
      <<"T","R","A","C","E">> }

(***************************************************************************)
(* The environment: HTTP answers and the file system                       *)
(***************************************************************************)
N_MIT        == <<"M","I","T"," ","L","i","c","e","n","s","e">>
N_mit        == <<"m","i","t"," ","l","i","c","e","n","s","e">>
N_MIT_space  == <<"M","I","T"," ","L","i","c","e","n","s","e"," ">>
N_BSD        == <<"B","S","D"," ","L","I","C","E","N","S","E">>
N_GPL        == <<"G","P","L">>

D_empty      == PyDict(Missing, Missing, 0)
D_nokey      == PyDict(Missing, PyStr("main"), 1)
D_null       == PyDict(PyNone, PyStr("main"), 1)
D_emptylic   == PyDict(PyLicense(Missing, 0), PyStr("main"), 1)
D_noname     == PyDict(PyLicense(Missing, 1), PyStr("main"), 1)
D_nullname   == PyDict(PyLicense(PyNone, 1), PyStr("main"), 1)
D_MIT        == PyDict(PyLicense(PyStr(N_MIT), 1), PyStr("main"), 1)
D_mit        == PyDict(PyLicense(PyStr(N_mit), 1), Missing, 1)
D_MIT_space  == PyDict(PyLicense(PyStr(N_MIT_space), 1), PyStr("main"), 1)
D_BSD        == PyDict(PyLicense(PyStr(N_BSD), 1), PyStr("main"), 1)
D_GPL        == PyDict(PyLicense(PyStr(N_GPL), 1), PyStr("main"), 1)

\* metadata documents the API can answer with
Docs == {D_empty, D_nokey, D_null, D_emptylic, D_noname, D_nullname,
         D_MIT, D_mit, D_MIT_space, D_BSD, D_GPL}

InvalidJson == [t |-> "invalid"]

\* requests.get on the metadata endpoint: a transport exception or a response
MetaResponses ==
    {[t |-> "exception"]}
    \cup {[t |-> "response", status_code |-> 404, body |-> InvalidJson]}
    \cup {[t |-> "response", status_code |-> 200, body |-> b] : b \in Docs \cup {InvalidJson}}

\* requests.get on the raw-content host
ReadmeResponses ==
    {[t |-> "exception"]}
    \cup {[t |-> "response", status_code |-> 404, text |-> T_empty]}
    \cup {[t |-> "response", status_code |-> 200, text |-> x] : x \in Texts}

Suffix_md == <<".", "m", "d">>
F_r == <<"r">> \o Suffix_md

NoFiles == [n \in {} |-> << >>]
InitialFiles == {NoFiles, [n \in {F_r} |-> T_old]}

(***************************************************************************)
(* State                                                                   *)
(***************************************************************************)
VARIABLES
    entry,           \* "main" or "process_repositories": the function the run entered by
    log_level,       \* --log-level as typed
    pc,              \* the statement about to run
    exc,             \* the exception that left the run, "" when none
    repos,           \* the list given to process_repositories
    i,               \* iteration of the for loop, from 1
    owner, repo,     \* locals of process_repositories
    repo_data,
    readme_content,
    dirExists,       \* the output directory exists
    files,           \* file name |-> content, inside the output directory
    trace            \* the calls made so far, oldest first

vars == <<entry, log_level, pc, exc, repos, i, owner, repo, repo_data, readme_content,
          dirExists, files, trace>>

RECURSIVE SeqsUpTo(_, _)
SeqsUpTo(S, n) ==
    IF n = 0 THEN {<< >>}
    ELSE LET shorter == SeqsUpTo(S, n - 1)
         IN  shorter \cup {Append(q, x) : q \in {r \in shorter : Len(r) = n - 1}, x \in S}

RepoLists == SeqsUpTo(RepoInputs, MaxRepos)

Ev(idx, op, res, text) == [idx |-> idx, op |-> op, res |-> res, text |-> text]

Init ==
    /\ entry \in {"main", "process_repositories"}
    /\ IF entry = "main"
       THEN /\ log_level \in LogLevelInputs
            /\ pc = "parse_arguments"
            /\ repos = << >>
       ELSE /\ log_level = <<"I","N","F","O">>
            /\ pc = "loop"
            /\ repos \in RepoLists
    /\ exc = ""
    /\ i = 1
    /\ owner = << >>
    /\ repo = << >>
    /\ repo_data = PyNone
    /\ readme_content = PyNone
    /\ dirExists \in BOOLEAN
    /\ files \in (IF dirExists THEN InitialFiles ELSE {NoFiles})
    /\ trace = << >>

(***************************************************************************)
(* main                                                                    *)
(***************************************************************************)
\* parse_arguments: argparse exits with status 2 on a value outside choices
ParseArguments ==
    /\ pc = "parse_arguments"
    /\ IF log_level \in LogLevelChoices
       THEN pc' = "configure_logger" /\ exc' = exc
       ELSE pc' = "raised" /\ exc' = "SystemExit"
    /\ UNCHANGED <<entry, log_level, repos, i, owner, repo, repo_data, readme_content,
                   dirExists, files, trace>>

\* configure_logger: getattr(logging, log_level.upper(), None) must be an int
ConfigureLogger ==
    /\ pc = "configure_logger"
    /\ IF Upper(log_level) \in LoggingIntNames
       THEN pc' = "makedirs" /\ exc' = exc
       ELSE pc' = "raised" /\ exc' = "ValueError"
    /\ UNCHANGED <<entry, log_level, repos, i, owner, repo, repo_data, readme_content,
                   dirExists, files, trace>>

\* os.makedirs(output_dir, exist_ok=True)
MainMakedirs ==
    /\ pc = "makedirs"
    /\ \E ok \in BOOLEAN :
         IF ok \/ dirExists
         THEN pc' = "call" /\ dirExists' = TRUE /\ exc' = exc
         ELSE pc' = "raised" /\ dirExists' = dirExists /\ exc' = "OSError"
    /\ UNCHANGED <<entry, log_level, repos, i, owner, repo, repo_data, readme_content,
                   files, trace>>

\* process_repositories(target_repositories, output_dir, args.token)
MainCall ==
    /\ pc = "call"
    /\ repos' = target_repositories
    /\ i' = 1
    /\ pc' = "loop"
    /\ UNCHANGED <<entry, log_level, exc, owner, repo, repo_data, readme_content,
                   dirExists, files, trace>>

(***************************************************************************)
(* process_repositories                                                    *)
(***************************************************************************)
\* `for full_repo in repos`: the list positions in the order they are visited
ReversedOrder(rs) == [k \in 1..Len(rs) |-> Len(rs) + 1 - k]
Order(rs) == [k \in 1..Len(rs) |-> k]

\* the list position of the entry being handled
Pos == Order(repos)[i]

\* a loop that does not advance on `continue`
Retry(k) == k
\* `continue`: on to the next iteration
Continue(k) == k + 1

\* owner, repo = full_repo.split("/", 1)
UnpackMaxOne(full_repo) == SplitMaxOne(full_repo, "/")
\* owner, repo = full_repo.split("/")
Unpack(full_repo) == Split(full_repo, "/")

\* lines 187-199: trim, skip blank entries, split, skip malformed entries
Parse ==
    /\ pc = "loop"
    /\ i <= Len(repos)
    /\ LET full_repo == Strip(repos[Pos])
           parts == Unpack(full_repo)
       IN  IF full_repo = << >> \/ Len(parts) # 2
           THEN /\ i' = Continue(i)
                /\ pc' = "loop"
                /\ UNCHANGED <<owner, repo>>
           ELSE /\ owner' = parts[1]
                /\ repo' = parts[2]
                /\ i' = i
                /\ pc' = "get_repo_info"
    /\ UNCHANGED <<entry, log_level, exc, repos, repo_data, readme_content,
                   dirExists, files, trace>>

\* lines 201-204 and get_repo_info
GetRepoInfo ==
    /\ pc = "get_repo_info"
    /\ \E response \in MetaResponses :
         IF response.t = "exception"
         THEN /\ trace' = Append(trace, Ev(Pos, "get_repo_info", "raise", << >>))
              /\ pc' = "raised" /\ exc' = "ConnectionError"
              /\ UNCHANGED <<i, repo_data>>
         ELSE IF response.status_code # 200
         THEN /\ trace' = Append(trace, Ev(Pos, "get_repo_info", "none", << >>))
              /\ repo_data' = PyNone
              /\ i' = Continue(i) /\ pc' = "loop" /\ exc' = exc
         ELSE IF response.body.t = "invalid"
         THEN /\ trace' = Append(trace, Ev(Pos, "get_repo_info", "bad_json", << >>))
              /\ pc' = "raised" /\ exc' = "JSONDecodeError"
              /\ UNCHANGED <<i, repo_data>>
         ELSE /\ repo_data' = response.body
              /\ exc' = exc
              /\ IF ~Truthy(response.body)
                 THEN /\ trace' = Append(trace, Ev(Pos, "get_repo_info", "empty", << >>))
                      /\ i' = Continue(i) /\ pc' = "loop"
                 ELSE /\ trace' = Append(trace, Ev(Pos, "get_repo_info", "dict", << >>))
                      /\ i' = i /\ pc' = "license"
    /\ UNCHANGED <<entry, log_level, repos, owner, repo, readme_content, dirExists, files>>

\* a gate without the `if not license_info` test
NeverAbsent(license_info) == FALSE
\* `if not license_info`
LicenseAbsent(license_info) == ~Truthy(license_info)

\* `license_name not in ALLOWED_LICENSES`, on a name trimmed first
AllowedTrimmed(license_name) == InList(Strip(license_name), ALLOWED_LICENSES)
\* `license_name in ALLOWED_LICENSES`
Allowed(license_name) == InList(license_name, ALLOWED_LICENSES)

\* lines 207-217: the license gate
CheckLicense ==
    /\ pc = "license"
    /\ LET license_info == DictGet(repo_data, "license", PyNone)
       IN  IF LicenseAbsent(license_info)
           THEN /\ trace' = Append(trace, Ev(Pos, "license", "no_license", << >>))
                /\ i' = Continue(i) /\ pc' = "loop" /\ exc' = exc
           ELSE IF license_info.t # "dict"
           THEN /\ trace' = Append(trace, Ev(Pos, "license", "raise", << >>))
                /\ i' = i /\ pc' = "raised" /\ exc' = "AttributeError"
           ELSE LET name == DictGet(license_info, "name", PyStr(<< >>))
                IN  IF name.t # "str"
                    THEN /\ trace' = Append(trace, Ev(Pos, "license", "raise", << >>))
                         /\ i' = i /\ pc' = "raised" /\ exc' = "AttributeError"
                    ELSE IF ~Allowed(Lower(name.s))
                    THEN /\ trace' = Append(trace, Ev(Pos, "license", "not_allowed", << >>))
                         /\ i' = Continue(i) /\ pc' = "loop" /\ exc' = exc
                    ELSE /\ trace' = Append(trace, Ev(Pos, "license", "allowed", << >>))
                         /\ i' = i /\ pc' = "download_readme" /\ exc' = exc
    /\ UNCHANGED <<entry, log_level, repos, owner, repo, repo_data, readme_content,
                   dirExists, files>>

\* lines 220-227 and download_readme
DownloadReadme ==
    /\ pc = "download_readme"
    /\ \E response \in ReadmeResponses :
         IF response.t = "exception"
         THEN /\ trace' = Append(trace, Ev(Pos, "download_readme", "raise", << >>))
              /\ pc' = "raised" /\ exc' = "ConnectionError"
              /\ UNCHANGED <<i, readme_content>>
         ELSE IF response.status_code # 200
         THEN /\ trace' = Append(trace, Ev(Pos, "download_readme", "none", << >>))
              /\ readme_content' = PyNone
              /\ i' = Continue(i) /\ pc' = "loop" /\ exc' = exc
         ELSE /\ readme_content' = PyStr(response.text)
              /\ trace' = Append(trace, Ev(Pos, "download_readme", "text", response.text))
              /\ exc' = exc
              /\ IF ~Truthy(PyStr(response.text))
                 THEN i' = Continue(i) /\ pc' = "loop"
                 ELSE i' = i /\ pc' = "save_readme"
    /\ UNCHANGED <<entry, log_level, repos, owner, repo, repo_data, dirExists, files>>

\* the filename argument of the call on line 229
SaveArg(owner_, repo_) == repo_

\* lines 168-169: the file name inside the output directory
FilePath(filename) == Replace(filename, "/", "_") \o Suffix_md

\* a file opened in mode "a": what it holds once `written` is written
Appended(old, written) == old \o written
\* a file opened in mode "w": what it holds once `written` is written
Opened(old, written) == written

Store(fs, name, content) ==
    [n \in DOMAIN fs \cup {name} |-> IF n = name THEN content ELSE fs[n]]

\* line 229 and save_readme.  The file system decides whether makedirs and
\* open succeed and how many characters reach the file before write fails.
SaveReadme ==
    /\ pc = "save_readme"
    /\ LET content == readme_content.s
           file_path == FilePath(SaveArg(owner, repo))
           old == IF file_path \in DOMAIN files THEN files[file_path] ELSE << >>
       IN  \E mk \in BOOLEAN, op \in BOOLEAN, n \in 0..Len(content) :
             IF ~dirExists /\ ~mk
             THEN /\ trace' = Append(trace, Ev(Pos, "save_readme", "makedirs_failed", content))
                  /\ pc' = "raised" /\ exc' = "OSError"
                  /\ UNCHANGED <<i, dirExists, files>>
             ELSE /\ dirExists' = TRUE
                  /\ exc' = exc
                  /\ i' = i + 1
                  /\ pc' = "loop"
                  /\ IF ~op
                     THEN /\ trace' = Append(trace, Ev(Pos, "save_readme", "open_failed", content))
                          /\ files' = files
                     ELSE /\ files' = Store(files, file_path, Opened(old, SubSeq(content, 1, n)))
                          /\ trace' = Append(trace,
                               Ev(Pos, "save_readme",
                                  IF n = Len(content) THEN "saved" ELSE "write_failed", content))
    /\ UNCHANGED <<entry, log_level, repos, owner, repo, repo_data, readme_content>>

\* the list is exhausted: process_repositories returns
LoopExit ==
    /\ pc = "loop"
    /\ i > Len(repos)
    /\ pc' = "returned"
    /\ UNCHANGED <<entry, log_level, exc, repos, i, owner, repo, repo_data, readme_content,
                   dirExists, files, trace>>

Next ==
    \/ ParseArguments
    \/ ConfigureLogger
    \/ MainMakedirs
    \/ MainCall
    \/ Parse
    \/ GetRepoInfo
    \/ CheckLicense
    \/ DownloadReadme
    \/ SaveReadme
    \/ LoopExit

Spec == Init /\ [][Next]_vars

(***************************************************************************)
(* Vocabulary of the properties                                            *)
(***************************************************************************)
RECURSIVE CountChar(_, _)
CountChar(s, c) ==
    IF s = << >> THEN 0 ELSE (IF Head(s) = c THEN 1 ELSE 0) + CountChar(Tail(s), c)

\* an entry that, trimmed, does not hold exactly one '/'
Malformed(e) == CountChar(Strip(e), "/") # 1

\* the text after the '/' of a well-formed entry, and its output file
RepoOf(e) == LET t == Strip(e)
                 p == CHOOSE q \in 1..Len(t) : t[q] = "/"
             IN  SubSeq(t, p + 1, Len(t))
OwnerOf(e) == LET t == Strip(e)
                  p == CHOOSE q \in 1..Len(t) : t[q] = "/"
              IN  SubSeq(t, 1, p - 1)
FileOf(e) == RepoOf(e) \o Suffix_md

EventsOf(k, op) == {p \in DOMAIN trace : trace[p].idx = k /\ trace[p].op = op}
Calls(k, op) == Cardinality(EventsOf(k, op))
HasEvent(k, op, results) == \E p \in EventsOf(k, op) : trace[p].res \in results

\* the README body entry k was answered with
TextOf(k) == trace[CHOOSE p \in EventsOf(k, "download_readme") : TRUE].text

\* an event after which its entry is not carried further
Failed(e) ==
    \/ e.res \in {"raise", "bad_json", "none", "empty", "no_license", "not_allowed",
                  "makedirs_failed", "open_failed", "write_failed"}
    \/ e.op = "download_readme" /\ e.res = "text" /\ e.text = << >>

StageNo(op) == CASE op = "get_repo_info"   -> 1
                 [] op = "license"         -> 2
                 [] op = "download_readme" -> 3
                 [] op = "save_readme"     -> 4

IsProperPrefix(a, b) == Len(a) < Len(b) /\ a = SubSeq(b, 1, Len(a))

LastEvent == trace[Len(trace)]

(***************************************************************************)
(* C1: an entry that, trimmed, has no '/' or more than one '/' is skipped: *)
(* the step that meets it raises nothing, makes no call and moves to the   *)
(* next entry; no call of get_repo_info or download_readme is ever made    *)
(* for it.                                                                 *)
(***************************************************************************)
C1_MalformedSkipped ==
    /\ [](\A k \in 1..Len(repos) :
            Malformed(repos[k]) =>
              Calls(k, "get_repo_info") = 0 /\ Calls(k, "download_readme") = 0)
    /\ [][(pc = "loop" /\ i <= Len(repos) /\ Malformed(repos[i])) =>
            (pc' = "loop" /\ i' = i + 1 /\ exc' = "" /\ trace' = trace /\ files' = files)]_vars

\* an entry with two '/' was passed over and a later entry reached its fetch
C1_Witness ==
    \E k \in 1..Len(repos) :
      /\ CountChar(Strip(repos[k]), "/") > 1
      /\ Calls(k, "get_repo_info") = 0
      /\ \E p \in DOMAIN trace : trace[p].idx > k

(***************************************************************************)
(* C2: when the metadata document has no `license` key the repository is   *)
(* skipped: the gate moves to the next entry, download_readme is not       *)
(* called for it and no file is written for it.                            *)
(***************************************************************************)
NoLicenseKey(d) == d.t = "dict" /\ d.license.t = "missing"

C2_NoLicenseSkipped ==
    /\ [](NoLicenseKey(repo_data) => pc \notin {"download_readme", "save_readme"})
    /\ [][(pc = "license" /\ NoLicenseKey(repo_data)) =>
            /\ pc' = "loop" /\ i' = i + 1 /\ exc' = ""
            /\ files' = files
            /\ Len(trace') = Len(trace) + 1
            /\ trace'[Len(trace')].op = "license"]_vars

\* the gate has just turned away a document that has keys but no `license`
C2_Witness ==
    /\ pc = "loop"
    /\ repo_data = D_nokey
    /\ trace # << >>
    /\ LastEvent.op = "license" /\ LastEvent.res = "no_license"
    /\ Calls(LastEvent.idx, "download_readme") = 0

(***************************************************************************)
(* C3: when the metadata has a `license` field, the gate goes on to        *)
(* download_readme iff `license.name` is a string that, compared character *)
(* by character ignoring case, equals one of ALLOWED_LICENSES; nothing is  *)
(* trimmed, so "MIT License " is turned away.                              *)
(***************************************************************************)
EqualsIgnoringCase(a, b) == Len(a) = Len(b) /\ \A k \in 1..Len(a) : LowerChar(a[k]) = b[k]

NameOnAllowList(license) ==
    /\ license.t = "dict"
    /\ license.name.t = "str"
    /\ \E k \in 1..Len(ALLOWED_LICENSES) : EqualsIgnoringCase(license.name.s, ALLOWED_LICENSES[k])

C3_ExactAllowList ==
    [][(pc = "license" /\ ~NoLicenseKey(repo_data)) =>
         /\ (pc' = "download_readme") <=> NameOnAllowList(repo_data.license)
         /\ repo_data = D_MIT_space => pc' = "loop"]_vars

\* the name with a trailing blank has just been turned away
C3_Witness ==
    /\ pc = "loop"
    /\ repo_data = D_MIT_space
    /\ trace # << >>
    /\ LastEvent.op = "license" /\ LastEvent.res = "not_allowed"

(***************************************************************************)
(* C4: an entry with an allow-listed license whose README request is       *)
(* answered 200 (any body), and whose save met no file system failure,     *)
(* has caused exactly one write and <repo>.md holds the body verbatim.     *)
(***************************************************************************)
C4_VerbatimFile ==
    (pc = "loop" /\ i > 1 /\ i - 1 <= Len(repos)
       /\ HasEvent(i - 1, "license", {"allowed"})
       /\ HasEvent(i - 1, "download_readme", {"text"})
       /\ ~HasEvent(i - 1, "save_readme", {"makedirs_failed", "open_failed", "write_failed"}))
    => /\ Calls(i - 1, "save_readme") = 1
       /\ FileOf(repos[i - 1]) \in DOMAIN files
       /\ files[FileOf(repos[i - 1])] = TextOf(i - 1)

(***************************************************************************)
(* C5: a non-200 answer or a transport exception on either fetch only      *)
(* skips its repository: the loop has moved past that entry and no         *)
(* exception has left process_repositories.                                *)
(***************************************************************************)
NetworkError(e) == e.op \in {"get_repo_info", "download_readme"} /\ e.res \in {"none", "raise"}

C5_NetworkErrorIsolated ==
    \A p \in DOMAIN trace :
      NetworkError(trace[p]) => (i > trace[p].idx /\ exc # "ConnectionError")

(***************************************************************************)
(* C6: a file system failure inside save_readme (makedirs, open or write)  *)
(* is caught: the loop has moved past that entry and no OSError has left   *)
(* save_readme.                                                            *)
(***************************************************************************)
C6_SaveFailureCaught ==
    \A p \in DOMAIN trace :
      (trace[p].op = "save_readme"
         /\ trace[p].res \in {"makedirs_failed", "open_failed", "write_failed"})
      => (i > trace[p].idx /\ exc # "OSError")

(***************************************************************************)
(* C7: with an invalid log level main aborts before any processing (no     *)
(* request, no output directory created, no file written), and that        *)
(* configuration error is the only error that leaves a run of main.        *)
(***************************************************************************)
InvalidLevel == log_level \notin LogLevelChoices
ConfigurationErrors == {"SystemExit", "ValueError"}

C7_OnlyConfigErrorPropagates ==
    /\ [](entry = "main" =>
            /\ InvalidLevel => (pc \in {"parse_arguments", "raised"} /\ trace = << >>)
            /\ exc # "" => (InvalidLevel /\ exc \in ConfigurationErrors))
    /\ [][(entry = "main" /\ InvalidLevel) => UNCHANGED <<dirExists, files, trace>>]_vars

(***************************************************************************)
(* C8: entries are handled in list order, one at a time: consecutive calls *)
(* either belong to the same entry, one stage further, or the earlier      *)
(* entry has written its file or short-circuited and the later call        *)
(* belongs to a later entry.                                               *)
(***************************************************************************)
C8_InOrderOneAtATime ==
    /\ \A p \in DOMAIN trace : trace[p].idx \in 1..Len(repos) /\ trace[p].idx <= i
    /\ trace # << >> => StageNo(trace[1].op) = 1
    /\ \A p \in 1..(Len(trace) - 1) :
         IF trace[p].idx = trace[p + 1].idx
         THEN ~Failed(trace[p]) /\ StageNo(trace[p + 1].op) = StageNo(trace[p].op) + 1
         ELSE /\ trace[p].idx < trace[p + 1].idx
              /\ (trace[p].op = "save_readme" \/ Failed(trace[p]))
              /\ StageNo(trace[p + 1].op) = 1

\* a first entry wrote its file, then a later entry was fetched
C8_Witness ==
    \E p \in 1..(Len(trace) - 1) :
      /\ trace[p].op = "save_readme" /\ trace[p].res = "saved"
      /\ trace[p + 1].idx > trace[p].idx

(***************************************************************************)
(* C9: nothing is retried: per entry at most one metadata request and at   *)
(* most one README request, and no call for an entry follows a failed or   *)
(* rejected stage of that entry.                                           *)
(***************************************************************************)
C9_NoRetry ==
    /\ \A k \in 1..Len(repos) :
         Calls(k, "get_repo_info") <= 1 /\ Calls(k, "download_readme") <= 1
    /\ \A p \in DOMAIN trace, q \in DOMAIN trace :
         (p < q /\ Failed(trace[p])) => trace[q].idx # trace[p].idx

\* the metadata request of an entry failed, a later entry was handled, and
\* the run is over
C9_Witness ==
    /\ pc = "returned"
    /\ \E p \in DOMAIN trace :
         /\ trace[p].op = "get_repo_info" /\ trace[p].res = "none"
         /\ \E q \in DOMAIN trace : trace[q].idx > trace[p].idx

(***************************************************************************)
(* C10 as stated: once process_repositories has returned, <repo>.md holds  *)
(* the README text of the last entry with that repo name that passed every *)
(* stage, and a step that does not complete a save leaves every file as it *)
(* was.                                                                    *)
(***************************************************************************)
Passed(k) == HasEvent(k, "save_readme", {"saved"})
OpenedFile(k) == HasEvent(k, "save_readme", {"saved", "write_failed"})

C10_LastPassedWins ==
    /\ [](pc = "returned" =>
            \A k \in 1..Len(repos) :
              (Passed(k) /\ ~\E j \in (k + 1)..Len(repos) :
                               Passed(j) /\ RepoOf(repos[j]) = RepoOf(repos[k]))
              => (FileOf(repos[k]) \in DOMAIN files /\ files[FileOf(repos[k])] = TextOf(k)))
    /\ [][(trace' = trace \/ trace'[Len(trace')].res # "saved") => files' = files]_vars

(***************************************************************************)
(* C10 amended: at every point <repo>.md is decided by the last entry with *)
(* that repo name for which save_readme opened the file, whatever its      *)
(* owner: the whole README text if the write succeeded, a proper prefix of *)
(* it if the write failed; a step that does not open the file leaves every *)
(* file as it was.                                                         *)
(***************************************************************************)
C10_LastOpenedWins ==
    /\ [](\A k \in 1..Len(repos) :
            (OpenedFile(k) /\ ~\E j \in (k + 1)..Len(repos) :
                                 OpenedFile(j) /\ RepoOf(repos[j]) = RepoOf(repos[k]))
            => /\ FileOf(repos[k]) \in DOMAIN files
               /\ IF Passed(k)
                  THEN files[FileOf(repos[k])] = TextOf(k)
                  ELSE IsProperPrefix(files[FileOf(repos[k])], TextOf(k)))
    /\ [][(trace' = trace \/ trace'[Len(trace')].res \notin {"saved", "write_failed"})
            => files' = files]_vars

\* two owners, one repo name, different texts, both saved: the later text stands
C10_Witness ==
    /\ pc = "returned"
    /\ \E j \in 1..Len(repos), k \in 1..Len(repos) :
         /\ j < k /\ Passed(j) /\ Passed(k)
         /\ RepoOf(repos[j]) = RepoOf(repos[k])
         /\ OwnerOf(repos[j]) # OwnerOf(repos[k])
         /\ TextOf(j) # TextOf(k)
         /\ files[FileOf(repos[k])] = TextOf(k)

====
